---- MODULE Spec2Model ----
(***************************************************************************)
(* Model of the rule-evaluation engine DQChecker of src/DQ.py: a dataset   *)
(* (pandas DataFrame) and a rules document are given at construction, and  *)
(* seven dimension functions each return a percentage score.               *)
(*                                                                         *)
(* Scores are kept as exact fractions <<num, den>> (score = num / den), so *)
(* that (1 - invalid/total) * 100 is <<100 * (total - invalid), total>>.   *)
(* A call that lets a Python exception escape has the result Raised.       *)
(***************************************************************************)
EXTENDS Integers, Sequences, FiniteSets, TLC

VARIABLES df, rules, df0, rules0, last

vars == <<df, rules, df0, rules0, last>>

(***************************************************************************)
(* Bounds of the model.                                                    *)
(***************************************************************************)
MaxRows == 2
MaxRules == 2

(***************************************************************************)
(* Cells of the dataset: a null marker (NaN), a number, or a string (a     *)
(* sequence of characters).  One record shape for the three kinds.         *)
(***************************************************************************)
Null == [kind |-> "null", num |-> 0, txt |-> <<>>]
Num(n) == [kind |-> "num", num |-> n, txt |-> <<>>]
Str(s) == [kind |-> "str", num |-> 0, txt |-> s]

\* The columns of the dataset, and the column names the rules may mention
\* ("Z" is never a column of the dataset).
Columns == {"A", "B"}
RuleCols == {"A", "B", "Z"}

ACells == {Null, Num(5), Str(<<"a", "5">>)}
BCells == {Null, Num(1), Num(7)}

Rows == {[A |-> a, B |-> b] : a \in ACells, b \in BCells}

DataFrames == UNION {[1..n -> Rows] : n \in 0..MaxRows}

EmptyMap == [x \in {} |-> {}]

\* dict.get(key, default)
Get(m, k, default) == IF k \in DOMAIN m THEN m[k] ELSE default

\* self.df[col]
Column(d, col) == [i \in 1..Len(d) |-> d[i][col]]

\* series.dropna()
dropna(series) == SelectSeq(series, LAMBDA c : c.kind # "null")

\* The dtype pandas gives a column: object when it holds a string, float64
\* when it holds numbers and a null, int64 when it holds numbers only.
Dtype(series) ==
  IF \E i \in 1..Len(series) : series[i].kind = "str" THEN "object"
  ELSE IF \E i \in 1..Len(series) : series[i].kind = "null" THEN "float64"
  ELSE "int64"

\* Number of positions of a sequence that satisfy a test.
CountSeq(s, Test(_)) == Len(SelectSeq(s, Test))

(***************************************************************************)
(* Scores and results.                                                     *)
(***************************************************************************)
\* Score without the "else 100" of an empty denominator
Score_ZeroWhenNothingChecked(invalid, total) ==
  IF total > 0 THEN <<100 * (total - invalid), total>> ELSE <<0, 1>>

\* (1 - (invalid / total)) * 100 if total > 0 else 100
Score(invalid, total) ==
  IF total > 0 THEN <<100 * (total - invalid), total>> ELSE <<100, 1>>

Returned(invalid, total) ==
  [raised |-> FALSE, invalid_count |-> invalid, total_checks |-> total,
   score |-> Score(invalid, total)]

\* "return 100.0" of the early exits
Returned100 ==
  [raised |-> FALSE, invalid_count |-> 0, total_checks |-> 0, score |-> <<100, 1>>]

\* an exception escaped the call
Raised ==
  [raised |-> TRUE, invalid_count |-> 0, total_checks |-> 0, score |-> <<0, 1>>]

\* the outcome of one rule: its counts, or an exception
Part(invalid, total) == [raised |-> FALSE, invalid |-> invalid, total |-> total]
PartRaised == [raised |-> TRUE, invalid |-> 0, total |-> 0]

(***************************************************************************)
(* check_value_completeness, check_record_completeness                     *)
(***************************************************************************)
RECURSIVE SumSeq(_)
SumSeq(s) == IF s = <<>> THEN 0 ELSE Head(s) + SumSeq(Tail(s))

\* self.df.size
Size(d) == Len(d) * Cardinality(Columns)

\* self.df.isnull().sum().sum()
NullCount(d) ==
  SumSeq([i \in 1..Len(d) |-> Cardinality({c \in Columns : d[i][c].kind = "null"})])

\* self.df.isnull().all(axis=1).sum()
EmptyRows(d) == CountSeq(d, LAMBDA row : \A c \in Columns : row[c].kind = "null")

check_value_completeness(d, r) == Returned(NullCount(d), Size(d))

check_record_completeness(d, r) == Returned(EmptyRows(d), Len(d))

(***************************************************************************)
(* check_syntax_validity                                                   *)
(***************************************************************************)
DigitChars == <<"0", "1", "2", "3", "4", "5", "6", "7", "8", "9">>

IsDigit(c) == \E i \in 1..10 : DigitChars[i] = c

RECURSIVE Digits(_)
Digits(n) ==
  IF n < 10 THEN <<DigitChars[n + 1]>>
  ELSE Digits(n \div 10) \o <<DigitChars[(n % 10) + 1]>>

\* str(x) of a cell of a column of the given dtype: a float prints with its
\* fractional part, an integer (of an int64 column, or kept as a Python int
\* in an object column) without
str(c, dtype) ==
  IF c.kind = "str" THEN c.txt
  ELSE IF c.kind = "null" THEN <<"n", "a", "n">>
  ELSE IF dtype = "float64" THEN Digits(c.num) \o <<".", "0">>
  ELSE Digits(c.num)

endswith(s, suffix) ==
  /\ Len(s) >= Len(suffix)
  /\ SubSeq(s, Len(s) - Len(suffix) + 1, Len(s)) = suffix

\* return s[:-2] if s.endswith('.0') else s
clean_str(s) == IF endswith(s, <<".", "0">>) THEN SubSeq(s, 1, Len(s) - 2) ELSE s

\* The patterns of the model's rules documents.
PatDigitsOnly == "^[0-9]+$"
PatDigits == "[0-9]+"
PatMalformed == "("

\* re.match raises re.error on a pattern that does not compile
ReCompiles(pattern) == pattern # PatMalformed

\* re.match(pattern, s) is not None: the pattern matches at the start of s
re_match(pattern, s) ==
  IF pattern = PatDigitsOnly THEN Len(s) > 0 /\ \A i \in 1..Len(s) : IsDigit(s[i])
  ELSE IF pattern = PatDigits THEN Len(s) > 0 /\ IsDigit(s[1])
  ELSE FALSE

\* SyntaxCol with total_checks += matches.sum(): only the matching cells
\* reach the denominator
SyntaxCol_TotalCountsMatches(d, col, pattern) ==
  IF col \notin Columns THEN Part(0, 0)
  ELSE LET series == dropna(Column(d, col))
           dtype == Dtype(Column(d, col))
       IN IF series = <<>> THEN Part(0, 0)
          ELSE IF ~ReCompiles(pattern) THEN PartRaised
          ELSE Part(CountSeq(series,
                             LAMBDA c : ~re_match(pattern, clean_str(str(c, dtype)))),
                    CountSeq(series,
                             LAMBDA c : re_match(pattern, clean_str(str(c, dtype)))))

\* SyntaxCol without the dropna(): a null cell is matched as "nan"
SyntaxCol_KeepsNulls(d, col, pattern) ==
  IF col \notin Columns THEN Part(0, 0)
  ELSE LET series == Column(d, col)
           dtype == Dtype(Column(d, col))
       IN IF series = <<>> THEN Part(0, 0)
          ELSE IF ~ReCompiles(pattern) THEN PartRaised
          ELSE Part(CountSeq(series,
                             LAMBDA c : ~re_match(pattern, clean_str(str(c, dtype)))),
                    Len(series))

\* one iteration of the loop of check_syntax_validity
SyntaxCol(d, col, pattern) ==
  IF col \notin Columns THEN Part(0, 0)
  ELSE LET series == dropna(Column(d, col))
           dtype == Dtype(Column(d, col))
       IN IF series = <<>> THEN Part(0, 0)
          ELSE IF ~ReCompiles(pattern) THEN PartRaised
          ELSE Part(CountSeq(series,
                             LAMBDA c : ~re_match(pattern, clean_str(str(c, dtype)))),
                    Len(series))

\* the accumulation of the per-rule outcomes into the result of the call
RECURSIVE SumInvalid(_), SumTotal(_)
SumInvalid(parts) == IF parts = <<>> THEN 0 ELSE Head(parts).invalid + SumInvalid(Tail(parts))
SumTotal(parts) == IF parts = <<>> THEN 0 ELSE Head(parts).total + SumTotal(Tail(parts))

\* dict.items() in a fixed order
RECURSIVE Items(_)
Items(m) ==
  IF DOMAIN m = {} THEN <<>>
  ELSE LET k == CHOOSE x \in DOMAIN m : TRUE
       IN <<k>> \o Items([x \in (DOMAIN m) \ {k} |-> m[x]])

\* a loop without try/except: an exception in one iteration escapes the call
Uncaught(parts) ==
  IF \E i \in 1..Len(parts) : parts[i].raised THEN Raised
  ELSE Returned(SumInvalid(parts), SumTotal(parts))

check_syntax_validity(d, r) ==
  LET syntax_rules == Get(Get(r, "3_syntax_validity", EmptyMap), "columns", EmptyMap)
      cols == Items(syntax_rules)
  IN IF DOMAIN syntax_rules = {} THEN Returned100
     ELSE Uncaught([i \in 1..Len(cols) |-> SyntaxCol(d, cols[i], syntax_rules[cols[i]])])

(***************************************************************************)
(* check_semantic_validity                                                 *)
(***************************************************************************)
\* SemanticCol with a dropna() as in check_syntax_validity
SemanticCol_DropsNulls(d, col, valid_list) ==
  IF col \notin Columns THEN Part(0, 0)
  ELSE Part(CountSeq(dropna(Column(d, col)), LAMBDA c : c \notin valid_list),
            Len(dropna(Column(d, col))))

\* (~self.df[col].isin(valid_list)).sum(), len(self.df)
SemanticCol(d, col, valid_list) ==
  IF col \notin Columns THEN Part(0, 0)
  ELSE Part(CountSeq(Column(d, col), LAMBDA c : c \notin valid_list), Len(d))

check_semantic_validity(d, r) ==
  LET semantic_rules == Get(Get(r, "4_semantic_validity", EmptyMap), "columns", EmptyMap)
      cols == Items(semantic_rules)
  IN IF DOMAIN semantic_rules = {} THEN Returned100
     ELSE Uncaught([i \in 1..Len(cols) |-> SemanticCol(d, cols[i], semantic_rules[cols[i]])])

(***************************************************************************)
(* check_range_validity                                                    *)
(***************************************************************************)
NaN == [nan |-> TRUE, v |-> 0]
Number(n) == [nan |-> FALSE, v |-> n]

RECURSIVE ParseDigits(_)
ParseDigits(s) ==
  IF s = <<>> THEN 0
  ELSE 10 * ParseDigits(SubSeq(s, 1, Len(s) - 1))
       + (CHOOSE i \in 0..9 : DigitChars[i + 1] = s[Len(s)])

\* pd.to_numeric(series, errors='coerce') on one cell: a number stays, a
\* string of digits is parsed, anything else becomes NaN
to_numeric(c) ==
  IF c.kind = "num" THEN Number(c.num)
  ELSE IF c.kind = "str" /\ Len(c.txt) > 0 /\ (\A i \in 1..Len(c.txt) : IsDigit(c.txt[i]))
       THEN Number(ParseDigits(c.txt))
  ELSE NaN

\* temp_series < bound, temp_series > bound: False on NaN
Lt(x, bound) == ~x.nan /\ x.v < bound
Gt(x, bound) == ~x.nan /\ x.v > bound

\* RangeCol without "if col in self.df.columns": self.df[col] raises KeyError
RangeCol_NoPresenceCheck(d, col, limits) ==
  IF col \notin Columns THEN PartRaised
  ELSE IF "min" \notin DOMAIN limits \/ "max" \notin DOMAIN limits THEN PartRaised
  ELSE Part(CountSeq(Column(d, col),
                     LAMBDA c : Lt(to_numeric(c), limits["min"])
                                \/ Gt(to_numeric(c), limits["max"])),
            Len(d))

\* one iteration of the loop of check_range_validity; limits['min'] and
\* limits['max'] raise KeyError when the key is missing
RangeCol(d, col, limits) ==
  IF col \notin Columns THEN Part(0, 0)
  ELSE IF "min" \notin DOMAIN limits \/ "max" \notin DOMAIN limits THEN PartRaised
  ELSE Part(CountSeq(Column(d, col),
                     LAMBDA c : Lt(to_numeric(c), limits["min"])
                                \/ Gt(to_numeric(c), limits["max"])),
            Len(d))

check_range_validity(d, r) ==
  LET range_rules == Get(Get(r, "5_range_validity", EmptyMap), "columns", EmptyMap)
      cols == Items(range_rules)
  IN IF DOMAIN range_rules = {} THEN Returned100
     ELSE Uncaught([i \in 1..Len(cols) |-> RangeCol(d, cols[i], range_rules[cols[i]])])

(***************************************************************************)
(* check_relationship_validity                                             *)
(***************************************************************************)
\* The formulas of the model's rules documents: a comparison of two columns
\* of the dataset, one that names a column the dataset lacks, and one that
\* is no expression.
FormulaLe == "A <= B"
FormulaAbsentCol == "A <= Z"
FormulaMalformed == "A <="

\* the columns a formula names, left and right of "<="
FormulaCols(formula) ==
  IF formula = FormulaLe THEN <<"A", "B">>
  ELSE IF formula = FormulaAbsentCol THEN <<"A", "Z">>
  ELSE <<>>

\* a <= b on two cells: a null on either side gives False without comparing,
\* a string against a number raises TypeError (no cell of column B is a
\* string, so two strings never meet)
LeRaises(a, b) ==
  \/ a.kind = "str" /\ b.kind = "num"
  \/ a.kind = "num" /\ b.kind = "str"
Le(a, b) == a.kind = "num" /\ b.kind = "num" /\ a.num <= b.num

\* self.df.query(formula, engine='python'): the rows where the formula holds,
\* or an exception (SyntaxError, UndefinedVariableError, TypeError)
QueryRaises(d, formula) ==
  LET cols == FormulaCols(formula)
  IN \/ cols = <<>>
     \/ \E i \in 1..Len(cols) : cols[i] \notin Columns
     \/ \E i \in 1..Len(d) : LeRaises(d[i][cols[1]], d[i][cols[2]])

query(d, formula) ==
  LET cols == FormulaCols(formula)
  IN SelectSeq(d, LAMBDA row : Le(row[cols[1]], row[cols[2]]))

\* RelationshipRule whose except branch counts every row as a violation
RelationshipRule_ExceptCountsRows(d, rule) ==
  IF "formula" \notin DOMAIN rule THEN Len(d)
  ELSE IF QueryRaises(d, rule["formula"]) THEN Len(d)
  ELSE LET valid_count == Len(query(d, rule["formula"]))
       IN Len(d) - valid_count

\* one iteration of the loop of check_relationship_validity: the violations
\* the rule adds; "except: continue" adds none
RelationshipRule(d, rule) ==
  IF "formula" \notin DOMAIN rule THEN 0
  ELSE IF QueryRaises(d, rule["formula"]) THEN 0
  ELSE LET valid_count == Len(query(d, rule["formula"]))
       IN Len(d) - valid_count

check_relationship_validity(d, r) ==
  LET rel_rules == Get(Get(r, "6_relationship_validity", EmptyMap), "rules", <<>>)
      total_violations == SumSeq([i \in 1..Len(rel_rules) |-> RelationshipRule(d, rel_rules[i])])
      total_checks == Len(d) * Len(rel_rules)
  IN IF Len(rel_rules) = 0 THEN Returned100
     ELSE Returned(total_violations, total_checks)

(***************************************************************************)
(* check_referential_integrity                                             *)
(***************************************************************************)
\* The parent files on disk: one readable file with the column K.
ParentPath == "parent.csv"
MissingPath == "missing.csv"
FileSystem == (ParentPath :> [K |-> <<Num(5)>>])

\* pd.read_csv(p_path) / pd.read_excel(p_path) raise on a path that cannot be read
ReadRaises(p_path) == p_path \notin DOMAIN FileSystem
read_file(p_path) == FileSystem[p_path]

SeqRange(s) == {s[i] : i \in 1..Len(s)}

\* the try block of check_referential_integrity raises
RefRaises(d, rule) ==
  \/ "parent_file" \notin DOMAIN rule
  \/ ReadRaises(rule["parent_file"])
  \/ "child_column" \notin DOMAIN rule
  \/ rule["child_column"] \notin Columns
  \/ "parent_column" \notin DOMAIN rule
  \/ rule["parent_column"] \notin DOMAIN read_file(rule["parent_file"])

\* one iteration of the loop of check_referential_integrity: the violations
\* the check adds; "except: continue" adds none
ReferentialRule(d, rule) ==
  IF RefRaises(d, rule) THEN 0
  ELSE LET p_df == read_file(rule["parent_file"])
           parent == SeqRange(p_df[rule["parent_column"]])
       IN CountSeq(Column(d, rule["child_column"]), LAMBDA c : c \notin parent)

\* check_referential_integrity whose denominator leaves out the skipped checks
check_referential_integrity_SkipsLeaveDenominator(d, r) ==
  LET ref_rules == Get(Get(r, "7_referential_integrity", EmptyMap), "checks", <<>>)
      total_violations == SumSeq([i \in 1..Len(ref_rules) |-> ReferentialRule(d, ref_rules[i])])
      total_checks == Len(d) * Len(SelectSeq(ref_rules, LAMBDA rule : ~RefRaises(d, rule)))
  IN IF Len(ref_rules) = 0 THEN Returned100
     ELSE Returned(total_violations, total_checks)

check_referential_integrity(d, r) ==
  LET ref_rules == Get(Get(r, "7_referential_integrity", EmptyMap), "checks", <<>>)
      total_violations == SumSeq([i \in 1..Len(ref_rules) |-> ReferentialRule(d, ref_rules[i])])
      total_checks == Len(d) * Len(ref_rules)
  IN IF Len(ref_rules) = 0 THEN Returned100
     ELSE Returned(total_violations, total_checks)

(***************************************************************************)
(* The rules documents of the model.                                       *)
(***************************************************************************)
\* the mappings column -> rule, each column drawing from its own rules
Mappings(RulesFor(_)) ==
  UNION {{m \in [S -> UNION {RulesFor(c) : c \in S}] : \A c \in S : m[c] \in RulesFor(c)}
         : S \in SUBSET RuleCols}

SyntaxPatterns(col) ==
  IF col = "A" THEN {PatDigitsOnly, PatDigits, PatMalformed}
  ELSE IF col = "B" THEN {PatDigitsOnly}
  ELSE {PatMalformed}

SemanticLists(col) ==
  IF col = "A" THEN {{Num(5)}}
  ELSE IF col = "B" THEN {{Num(1)}}
  ELSE {{Num(5)}}

RangeLimits(col) ==
  IF col = "A" THEN {[min |-> 6, max |-> 9], [max |-> 9]}
  ELSE IF col = "B" THEN {[min |-> 2, max |-> 6]}
  ELSE {[max |-> 9]}

RelRules == {[formula |-> f] : f \in {FormulaLe, FormulaAbsentCol, FormulaMalformed}}

RefChecks ==
  {[parent_file |-> ParentPath, child_column |-> "A", parent_column |-> "K"],
   [parent_file |-> MissingPath, child_column |-> "A", parent_column |-> "K"],
   [parent_file |-> ParentPath, child_column |-> "Z", parent_column |-> "K"]}

Lists(S) == UNION {[1..n -> S] : n \in 0..MaxRules}

\* the "evaluation_rules" mappings: no section, or one section configured
EvaluationRules ==
  {EmptyMap}
  \cup {("3_syntax_validity" :> [columns |-> m]) : m \in Mappings(SyntaxPatterns)}
  \cup {("4_semantic_validity" :> [columns |-> m]) : m \in Mappings(SemanticLists)}
  \cup {("5_range_validity" :> [columns |-> m]) : m \in Mappings(RangeLimits)}
  \cup {("6_relationship_validity" :> [rules |-> l]) : l \in Lists(RelRules)}
  \cup {("7_referential_integrity" :> [checks |-> l]) : l \in Lists(RefChecks)}

\* the parsed JSON documents: with or without the key "evaluation_rules"
RulesDocuments == {EmptyMap} \cup {[evaluation_rules |-> e] : e \in EvaluationRules}

(***************************************************************************)
(* The engine.                                                             *)
(***************************************************************************)
\* `last` is the latest call and what its caller got
NoCall == [fn |-> "none", res |-> Returned100]

\* DQChecker.__init__
DQCheckerInit(data, doc) ==
  /\ df = data
  /\ rules = Get(doc, "evaluation_rules", EmptyMap)

Init ==
  /\ \E data \in DataFrames, doc \in RulesDocuments : DQCheckerInit(data, doc)
  /\ df0 = df
  /\ rules0 = rules
  /\ last = NoCall

\* a call of a dimension function: it reads self.df and self.rules and
\* returns (or raises)
Call(fn, res) ==
  /\ last' = [fn |-> fn, res |-> res]
  /\ UNCHANGED <<df, rules, df0, rules0>>

ValueCompleteness == Call("check_value_completeness", check_value_completeness(df, rules))
RecordCompleteness == Call("check_record_completeness", check_record_completeness(df, rules))
\* check_syntax_validity with self.df.dropna(subset=[col], inplace=True)
SyntaxValidity_DropsInPlace ==
  LET syntax_rules == Get(Get(rules, "3_syntax_validity", EmptyMap), "columns", EmptyMap)
  IN /\ last' = [fn |-> "check_syntax_validity",
                 res |-> check_syntax_validity(df, rules)]
     /\ df' = SelectSeq(df, LAMBDA row : \A c \in DOMAIN syntax_rules \cap Columns :
                                            row[c].kind # "null")
     /\ UNCHANGED <<rules, df0, rules0>>

SyntaxValidity == Call("check_syntax_validity", check_syntax_validity(df, rules))
SemanticValidity == Call("check_semantic_validity", check_semantic_validity(df, rules))
RangeValidity == Call("check_range_validity", check_range_validity(df, rules))
RelationshipValidity == Call("check_relationship_validity", check_relationship_validity(df, rules))
ReferentialIntegrity == Call("check_referential_integrity", check_referential_integrity(df, rules))

Next ==
  \/ ValueCompleteness
  \/ RecordCompleteness
  \/ SyntaxValidity
  \/ SemanticValidity
  \/ RangeValidity
  \/ RelationshipValidity
  \/ ReferentialIntegrity

Spec == Init /\ [][Next]_vars

(***************************************************************************)
(* Vocabulary of the properties.                                           *)
(***************************************************************************)
RuleDriven ==
  {"check_syntax_validity", "check_semantic_validity", "check_range_validity",
   "check_relationship_validity", "check_referential_integrity"}

\* the score a call of fn returns on dataset d and rules r
Apply(fn, d, r) ==
  CASE fn = "check_value_completeness" -> check_value_completeness(d, r)
    [] fn = "check_record_completeness" -> check_record_completeness(d, r)
    [] fn = "check_syntax_validity" -> check_syntax_validity(d, r)
    [] fn = "check_semantic_validity" -> check_semantic_validity(d, r)
    [] fn = "check_range_validity" -> check_range_validity(d, r)
    [] fn = "check_relationship_validity" -> check_relationship_validity(d, r)
    [] fn = "check_referential_integrity" -> check_referential_integrity(d, r)

Called == last.fn # "none"
Res == last.res

\* equality and order of scores kept as fractions (denominators positive)
ScoreEq(s, t) == s[1] * t[2] = t[1] * s[2]
ScoreLe(s, t) == s[1] * t[2] <= t[1] * s[2]
Is100(s) == ScoreEq(s, <<100, 1>>)

\* the rules collection a rule-driven function reads
SectionKey(fn) ==
  CASE fn = "check_syntax_validity" -> "3_syntax_validity"
    [] fn = "check_semantic_validity" -> "4_semantic_validity"
    [] fn = "check_range_validity" -> "5_range_validity"
    [] fn = "check_relationship_validity" -> "6_relationship_validity"
    [] fn = "check_referential_integrity" -> "7_referential_integrity"

ColumnRules(fn) == Get(Get(rules, SectionKey(fn), EmptyMap), "columns", EmptyMap)
RelRulesOf(r) == Get(Get(r, "6_relationship_validity", EmptyMap), "rules", <<>>)
RefChecksOf(r) == Get(Get(r, "7_referential_integrity", EmptyMap), "checks", <<>>)

\* the sub-section of fn is absent, or its collection is empty
NoRules(fn) ==
  CASE fn = "check_relationship_validity" -> RelRulesOf(rules) = <<>>
    [] fn = "check_referential_integrity" -> RefChecksOf(rules) = <<>>
    [] OTHER -> DOMAIN ColumnRules(fn) = {}

\* the configured columns the dataset has
PresentCols(fn) == DOMAIN ColumnRules(fn) \cap Columns

NonNullCells(col) == {i \in 1..Len(df) : df[i][col].kind # "null"}

(***************************************************************************)
(* C1                                                                      *)
(***************************************************************************)
\* C1: every score a dimension function returns lies in [0, 100], and the
\* violation count it divides never exceeds its total_checks.
C1_ScoreWithinBounds ==
  (Called /\ ~Res.raised) =>
    /\ ScoreLe(<<0, 1>>, Res.score)
    /\ ScoreLe(Res.score, <<100, 1>>)
    /\ 0 <= Res.invalid_count
    /\ Res.invalid_count <= Res.total_checks

\* a syntax call whose score is strictly between 0 and 100
C1_Witness ==
  /\ last.fn = "check_syntax_validity"
  /\ ~Res.raised
  /\ 0 < Res.invalid_count
  /\ Res.invalid_count < Res.total_checks

(***************************************************************************)
(* C2                                                                      *)
(***************************************************************************)
\* the inputs leave the function nothing to check
NothingToCheck(fn) ==
  CASE fn = "check_value_completeness" -> Size(df) = 0
    [] fn = "check_record_completeness" -> Len(df) = 0
    [] fn = "check_syntax_validity" ->
         \A c \in PresentCols(fn) : NonNullCells(c) = {}
    [] fn \in {"check_semantic_validity", "check_range_validity"} ->
         PresentCols(fn) = {} \/ Len(df) = 0
    [] OTHER -> NoRules(fn) \/ Len(df) = 0

\* C2: a dimension with nothing to check scores exactly 100: with its
\* sub-section absent or empty the call returns 100 whatever the dataset
\* holds, and a call that returns with total_checks = 0 (zero cells, zero
\* rows, no configured column present) returns 100.
C2_NothingToCheckIs100 ==
  Called =>
    /\ (last.fn \in RuleDriven /\ NoRules(last.fn)) => (~Res.raised /\ Is100(Res.score))
    /\ (~Res.raised /\ NothingToCheck(last.fn)) => Res.total_checks = 0
    /\ (~Res.raised /\ Res.total_checks = 0) => Is100(Res.score)

\* a rule-driven call with rules configured, rows to check, and yet no check
C2_Witness ==
  /\ last.fn = "check_range_validity"
  /\ ~NoRules(last.fn)
  /\ Len(df) > 0
  /\ \E i \in 1..Len(df) : df[i]["A"].kind = "null"
  /\ NothingToCheck(last.fn)
  /\ Is100(Res.score)

(***************************************************************************)
(* C7                                                                      *)
(***************************************************************************)
\* C7: no dimension-scoring call lets an exception escape, whatever the
\* content of the individual rules.
C7_NoExceptionEscapes == Called => ~Res.raised

RelNamesAbsent(rule) ==
  /\ "formula" \in DOMAIN rule
  /\ \E i \in 1..Len(FormulaCols(rule["formula"])) : FormulaCols(rule["formula"])[i] \notin Columns
RefNamesAbsent(rule) ==
  /\ "child_column" \in DOMAIN rule
  /\ rule["child_column"] \notin Columns

\* the rules document with the rules that name an absent column removed
WithoutAbsent(r) ==
  [k \in DOMAIN r |->
     IF k = "6_relationship_validity"
       THEN [rules |-> SelectSeq(r[k]["rules"], LAMBDA rule : ~RelNamesAbsent(rule))]
     ELSE IF k = "7_referential_integrity"
       THEN [checks |-> SelectSeq(r[k]["checks"], LAMBDA rule : ~RefNamesAbsent(rule))]
     ELSE [columns |-> [c \in (DOMAIN r[k]["columns"]) \cap Columns |-> r[k]["columns"][c]]]]

\* C3 as stated: in every rule-driven dimension a rule that names an absent
\* column adds nothing to the violations nor to total_checks, so the result
\* is the one obtained with that rule removed from the rules document.
C3_AbsentColumnRuleIsRemoved ==
  (Called /\ last.fn \in RuleDriven) => Res = Apply(last.fn, df, WithoutAbsent(rules))

\* C3 (amended): in the syntax, semantic and range dimensions the result is
\* the one obtained with the rule removed; in the relationship and
\* referential dimensions the rule raises nothing and adds no violation, but
\* it keeps its row_count share of total_checks.
C3_AbsentColumnRuleSkipped ==
  /\ last.fn \in {"check_syntax_validity", "check_semantic_validity", "check_range_validity"}
       => Res = Apply(last.fn, df, WithoutAbsent(rules))
  /\ last.fn = "check_relationship_validity" =>
       /\ ~Res.raised
       /\ Res.invalid_count = Apply(last.fn, df, WithoutAbsent(rules)).invalid_count
       /\ Res.total_checks = Len(df) * Len(RelRulesOf(rules))
  /\ last.fn = "check_referential_integrity" =>
       /\ ~Res.raised
       /\ Res.invalid_count = Apply(last.fn, df, WithoutAbsent(rules)).invalid_count
       /\ Res.total_checks = Len(df) * Len(RefChecksOf(rules))

\* a relationship call with a rule on an absent column next to a violated
\* rule: the score is not the one of the document without the rule
C3_Witness ==
  /\ last.fn = "check_relationship_validity"
  /\ \E k \in 1..Len(RelRulesOf(rules)) : RelNamesAbsent(RelRulesOf(rules)[k])
  /\ Res.invalid_count > 0
  /\ ~ScoreEq(Res.score, Apply(last.fn, df, WithoutAbsent(rules)).score)

(***************************************************************************)
(* C4                                                                      *)
(***************************************************************************)
\* a string that cannot be coerced to a number
NonNumeric(c) == c.kind = "str" /\ to_numeric(c).nan

\* a number strictly outside [min, max]
Outside(c, limits) ==
  /\ ~to_numeric(c).nan
  /\ (to_numeric(c).v < limits["min"] \/ to_numeric(c).v > limits["max"])

\* C4: check_range_validity counts, for every configured column present,
\* the rows whose value is non-numeric or strictly outside [min, max], and
\* total_checks grows by the full row count per such column.
C4_NonNumericIsViolation ==
  (last.fn = "check_range_validity" /\ ~Res.raised) =>
    LET range_rules == ColumnRules(last.fn)
    IN /\ Res.invalid_count =
            Cardinality({p \in PresentCols(last.fn) \X (1..Len(df)) :
                           \/ NonNumeric(df[p[2]][p[1]])
                           \/ Outside(df[p[2]][p[1]], range_rules[p[1]])})
       /\ Res.total_checks = Len(df) * Cardinality(PresentCols(last.fn))

(***************************************************************************)
(* C5                                                                      *)
(***************************************************************************)
\* the rule's formula evaluates on the dataset without raising
RelEvaluates(rule) == "formula" \in DOMAIN rule /\ ~QueryRaises(df, rule["formula"])

\* the formula is true of a row
FormulaHolds(formula, row) ==
  LET cols == FormulaCols(formula)
  IN row[cols[1]].kind = "num" /\ row[cols[2]].kind = "num"
     /\ row[cols[1]].num <= row[cols[2]].num

\* the pairs (rule, row) where the rule evaluates and its formula is false
RelViolations ==
  {p \in (1..Len(RelRulesOf(rules))) \X (1..Len(df)) :
     /\ RelEvaluates(RelRulesOf(rules)[p[1]])
     /\ ~FormulaHolds(RelRulesOf(rules)[p[1]]["formula"], df[p[2]])}

\* C5: check_relationship_validity returns (1 - V / (row_count * rule_count))
\* * 100 with rule_count all the configured rules and V the rows where a
\* formula that evaluates is false; a rule that raises adds 0 to V and keeps
\* its share of the denominator; "A <= B" on a row that satisfies it and a
\* row that does not scores 50.
C5_RelationshipScore ==
  LET rel_rules == RelRulesOf(rules)
      checks == Len(df) * Len(rel_rules)
  IN (last.fn = "check_relationship_validity" /\ checks > 0) =>
       /\ ~Res.raised
       /\ Res.invalid_count = Cardinality(RelViolations)
       /\ ScoreEq(Res.score, <<100 * (checks - Cardinality(RelViolations)), checks>>)
       /\ (/\ rel_rules = <<[formula |-> FormulaLe]>>
           /\ df = <<[A |-> Num(5), B |-> Num(7)], [A |-> Num(5), B |-> Num(1)]>>)
            => (Res.invalid_count = 1 /\ Res.total_checks = 2
                /\ ScoreEq(Res.score, <<50, 1>>))

\* a rule that raises is followed by a rule that one of two rows violates:
\* 1 violation of 4 checks
C5_Witness ==
  /\ last.fn = "check_relationship_validity"
  /\ RelRulesOf(rules) = <<[formula |-> FormulaAbsentCol], [formula |-> FormulaLe]>>
  /\ Len(df) = 2
  /\ Res.invalid_count = 1
  /\ ScoreEq(Res.score, <<75, 1>>)

(***************************************************************************)
(* C6                                                                      *)
(***************************************************************************)
\* the parent file of the check can be loaded
ParentLoads(rule) == "parent_file" \in DOMAIN rule /\ rule["parent_file"] \in DOMAIN FileSystem

\* the pairs (check, row) where the parent loads and the child value is not
\* among the values of the parent column
RefViolations ==
  {p \in (1..Len(RefChecksOf(rules))) \X (1..Len(df)) :
     LET rule == RefChecksOf(rules)[p[1]]
     IN /\ ParentLoads(rule)
        /\ rule["child_column"] \in Columns
        /\ \A j \in 1..Len(FileSystem[rule["parent_file"]][rule["parent_column"]]) :
             FileSystem[rule["parent_file"]][rule["parent_column"]][j]
               # df[p[2]][rule["child_column"]]}

\* C6: in check_referential_integrity a check whose parent file cannot be
\* loaded adds 0 violations and raises nothing, the other checks are still
\* counted, and total_checks is row_count * check_count with the skipped
\* check included; a check that loads adds the child values that are not in
\* the parent column.
C6_ReferentialSkip ==
  LET ref_rules == RefChecksOf(rules)
  IN (last.fn = "check_referential_integrity" /\ Len(ref_rules) > 0) =>
       /\ ~Res.raised
       /\ Res.invalid_count = Cardinality(RefViolations)
       /\ Res.total_checks = Len(df) * Len(ref_rules)
       /\ Res.score = Score(Cardinality(RefViolations), Len(df) * Len(ref_rules))

\* a check on a missing parent file is followed by a check that loads and
\* finds violations
C6_Witness ==
  /\ last.fn = "check_referential_integrity"
  /\ Len(RefChecksOf(rules)) = 2
  /\ ~ParentLoads(RefChecksOf(rules)[1])
  /\ ParentLoads(RefChecksOf(rules)[2])
  /\ Len(df) = 2
  /\ Res.invalid_count = 1
  /\ Res.total_checks = 4

(***************************************************************************)
(* C9                                                                      *)
(***************************************************************************)
\* the non-null cells (column, row) of the configured columns present
SyntaxChecked ==
  {p \in PresentCols("check_syntax_validity") \X (1..Len(df)) : p[2] \in NonNullCells(p[1])}

\* C9: in check_syntax_validity null cells count neither toward
\* total_checks nor toward invalid_count: total_checks is the number of
\* non-null cells summed over the configured columns present, invalid_count
\* the number of those whose normalized string does not match the column's
\* pattern at the start of the string.
C9_SyntaxSkipsNulls ==
  (last.fn = "check_syntax_validity" /\ ~Res.raised) =>
    LET syntax_rules == ColumnRules(last.fn)
    IN /\ Res.total_checks = Cardinality(SyntaxChecked)
       /\ Res.invalid_count =
            Cardinality({p \in SyntaxChecked :
               ~re_match(syntax_rules[p[1]],
                         clean_str(str(df[p[2]][p[1]], Dtype(Column(df, p[1])))))})

\* two configured columns present, a null cell among their four cells, one
\* of the three others invalid
C9_Witness ==
  /\ last.fn = "check_syntax_validity"
  /\ PresentCols(last.fn) = Columns
  /\ Len(df) = 2
  /\ \E i \in 1..2 : df[i]["A"].kind = "null"
  /\ Res.total_checks = 3
  /\ Res.invalid_count = 1

(***************************************************************************)
(* C10                                                                     *)
(***************************************************************************)
\* the null cells (column, row) of the configured columns present
SemanticNulls ==
  {p \in PresentCols("check_semantic_validity") \X (1..Len(df)) : df[p[2]][p[1]].kind = "null"}

\* C10: in check_semantic_validity each configured column present adds the
\* full row count to total_checks and adds to invalid_count the rows whose
\* value is not in the column's allowed values, a null cell being one of
\* them; the counts are summed over the columns.
C10_SemanticCountsNulls ==
  last.fn = "check_semantic_validity" =>
    LET semantic_rules == ColumnRules(last.fn)
        invalid == {p \in PresentCols(last.fn) \X (1..Len(df)) :
                      \A v \in semantic_rules[p[1]] : v # df[p[2]][p[1]]}
    IN /\ ~Res.raised
       /\ Res.total_checks = Len(df) * Cardinality(PresentCols(last.fn))
       /\ Res.invalid_count = Cardinality(invalid)
       /\ SemanticNulls \subseteq invalid
       /\ Res.score = Score(Cardinality(invalid), Len(df) * Cardinality(PresentCols(last.fn)))

\* two configured columns present, and the only invalid cell is a null
C10_Witness ==
  /\ last.fn = "check_semantic_validity"
  /\ PresentCols(last.fn) = Columns
  /\ Len(df) = 2
  /\ Cardinality(SemanticNulls) = 1
  /\ Res.invalid_count = 1
  /\ Res.total_checks = 4

====
